---- MODULE Spec2Model ----
(***************************************************************************)
(* BulkItemImport.import_csv of modern_ui: one import run reads the rows   *)
(* of the attached CSV file, validates the difference account, scans the   *)
(* rows (writing Items and Item Prices as it goes), and then submits one   *)
(* Stock Reconciliation per warehouse.  The record store (Item, Item       *)
(* Price, Stock Reconciliation, Account, Global Defaults) is the state the *)
(* handler reads and writes through frappe.                                *)
(***************************************************************************)
EXTENDS Integers, Sequences, FiniteSets, TLC

VARIABLES
    self,                  \* the Bulk Item Import document's settings fields
    global_defaults,       \* the "Global Defaults" single of the store
    Item,                  \* store: item_code -> item fields
    ItemPrice,             \* store: set of Item Price records
    StockReconciliation,   \* store: sequence of Stock Reconciliation documents
    file,                  \* the data rows of the attached file, as the reader yields them
    pc,                    \* position of the handler
    row_idx,               \* line number of the next data row (header = line 1)
    created_items, updated_items, created_prices, updated_prices, stock_recos,
    errors, log_lines,
    stock_map, stock_seen,
    default_company, default_currency,
    wh_pos,                \* position of the loop of line 202 in stock_map
    abort,                 \* which exception ended the run ("" when none)
    error_msg,             \* the message of the ValidationError the stock commit caught
    result,                \* the value import_csv returned
    import_log,            \* the document's import_log field
    error_log,             \* messages sent to frappe.log_error
    ops,                   \* the store operations this run has issued, in order
    store0,                \* the store's contents when this run started
    run,                   \* number of runs started
    runs_allowed,          \* number of runs this behaviour may start
    eof,                   \* TRUE once a run has read the file to its end
    prev                   \* what the previous run was given and produced

vars == <<self, global_defaults, Item, ItemPrice, StockReconciliation, file, pc,
          row_idx, created_items, updated_items, created_prices, updated_prices,
          stock_recos, errors, log_lines, stock_map, stock_seen, default_company,
          default_currency, wh_pos, abort, error_msg, result, import_log,
          error_log, ops, store0, run, runs_allowed, eof, prev>>

-----------------------------------------------------------------------------
(* Bounds of the model *)

\* data rows in the attached file
MaxRows == 2
\* runs of import_csv on the same document in the two-run specification
MaxRuns == 2

-----------------------------------------------------------------------------
(* The Account table of the store: never written by the import *)

Account ==
    [n \in {"Stock Adjustment - A", "Opening Balance - B", "Assets - A", "Expenses - A"} |->
        CASE n = "Stock Adjustment - A" ->
                [account_type |-> "Stock Adjustment", root_type |-> "Asset",
                 is_group |-> FALSE, company |-> "CoA"]
          [] n = "Opening Balance - B" ->
                [account_type |-> "Temporary", root_type |-> "Liability",
                 is_group |-> FALSE, company |-> "CoB"]
          [] n = "Assets - A" ->
                [account_type |-> "", root_type |-> "Asset",
                 is_group |-> TRUE, company |-> "CoA"]
          [] OTHER ->
                [account_type |-> "Expense Account", root_type |-> "Expense",
                 is_group |-> FALSE, company |-> "CoA"]]

\* the values the difference_account field is drawn from ("" = unset)
DifferenceAccounts == DOMAIN Account \cup {"", "No Such Account"}

-----------------------------------------------------------------------------
(* Rows: csv.DictReader rows after line 106, column name -> trimmed string *)

Columns ==
    {"item_code", "itemcode", "sku", "item_name", "itemname", "item",
     "item_group", "itemgroup", "group", "stock_uom", "uom", "stockuom",
     "price_list", "price_list_rate", "standard_selling_rate", "standard_rate",
     "currency", "warehouse", "opening_qty", "opening_stock", "qty",
     "valuation_rate", "valuation", "rate"}

\* a row with the given cells, every other column empty or absent
Row(cells) == [k \in Columns |-> IF k \in DOMAIN cells THEN cells[k] ELSE ""]

RowSet ==
    { Row([item_code |-> "A", item_name |-> "Widget", item_group |-> "Parts",
           stock_uom |-> "Nos", warehouse |-> "WH1", opening_qty |-> "10",
           valuation_rate |-> "2", price_list_rate |-> "7"]),
      Row([item_code |-> "A", warehouse |-> "WH1", opening_qty |-> "5"]),
      Row([item_name |-> "Widget", item_group |-> "Parts", stock_uom |-> "Nos"]),
      Row([sku |-> "B", item |-> "Gadget", group |-> "Parts", uom |-> "Nos",
           qty |-> "0", standard_rate |-> "3", currency |-> "USD"]),
      Row([itemcode |-> "B", item_name |-> "Gadget", item_group |-> "Parts",
           uom |-> "Nos", opening_stock |-> "4", rate |-> "1"]),
      Row([item_code |-> "B", item_name |-> "Gadget", warehouse |-> "WH1",
           opening_qty |-> "abc"]),
      Row([item_code |-> "B", itemname |-> "Gadget", itemgroup |-> "Parts",
           price_list |-> "Retail", price_list_rate |-> "3",
           warehouse |-> "WH2", opening_qty |-> "5"]) }

-----------------------------------------------------------------------------
(* Pure helpers *)

\* frappe.utils.flt on the cell values of RowSet: a lenient float parse, 0 for
\* text that is no number
flt(s) ==
    CASE s = "10" -> 10
      [] s = "7" -> 7
      [] s = "5" -> 5
      [] s = "4" -> 4
      [] s = "3" -> 3
      [] s = "2" -> 2
      [] s = "1" -> 1
      [] OTHER -> 0

RECURSIVE _get_value(_, _)
_get_value(row, keys) ==
    IF keys = <<>> THEN ""
    ELSE IF Head(keys) \in DOMAIN row /\ row[Head(keys)] # ""
         THEN row[Head(keys)]
         ELSE _get_value(row, Tail(keys))

\* Python's `x or y` on strings
Or(x, y) == IF x # "" THEN x ELSE y

\* an insertion-ordered dict: a sequence of [k, v] pairs with distinct keys
DictKeys(d) == {d[i].k : i \in DOMAIN d}
DictGet(d, key) == d[CHOOSE i \in DOMAIN d : d[i].k = key].v
DictSet(d, key, val) ==
    IF key \in DictKeys(d)
    THEN [i \in DOMAIN d |-> IF d[i].k = key THEN [k |-> key, v |-> val] ELSE d[i]]
    ELSE Append(d, [k |-> key, v |-> val])

-----------------------------------------------------------------------------
(* Configuration: lines 60-103 *)

\* lines 60-62: the explicit company, else the store-wide default
InitialCompany(s, gd) == Or(s.default_company, gd.default_company)

\* variant of ResolveCompany: the account's company is never adopted
ResolveCompany_NoAdoption(s, gd) == InitialCompany(s, gd)

\* lines 60-62 and 86-87: the company the run works with
ResolveCompany(s, gd) ==
    IF /\ InitialCompany(s, gd) = ""
       /\ s.difference_account \in DOMAIN Account
    THEN Account[s.difference_account].company
    ELSE InitialCompany(s, gd)

RootTypeAllowed_Any(root_type) == TRUE

\* line 94: the root types a difference account may have
RootTypeAllowed(root_type) == root_type \in {"Asset", "Liability"}

\* lines 69-103: the frappe.throw the configuration ends with, "" when none
ConfigError(s, gd) ==
    LET difference_account == s.difference_account
        company == ResolveCompany(s, gd)
    IN  IF difference_account = ""
        THEN IF ~s.skip_stock_reconciliation THEN "config:required" ELSE ""
        ELSE IF difference_account \notin DOMAIN Account THEN "config:not_found"
        ELSE LET account_details == Account[difference_account]
             IN  IF account_details.is_group THEN "config:group"
                 ELSE IF ~RootTypeAllowed(account_details.root_type)
                      THEN "config:root_type"
                 ELSE IF company # "" /\ account_details.company # company
                      THEN "config:company"
                 ELSE ""

-----------------------------------------------------------------------------
(* One row of the scan: lines 105-195 *)

ItemCodeOf(row) == _get_value(row, <<"item_code", "itemcode", "sku">>)
ItemNameOf(row) == _get_value(row, <<"item_name", "itemname", "item">>)
ItemGroupOf(row) == _get_value(row, <<"item_group", "itemgroup", "group">>)
StockUomOf(row) == _get_value(row, <<"stock_uom", "uom", "stockuom">>)

\* one store call of the run: the doctype, the call, its key and the line of the
\* row that caused it (0 for the stock commit)
Op(doctype, call, key, line) ==
    [doctype |-> doctype, call |-> call, key |-> key, line |-> line]

\* an entry of `errors`: f"Row {row_idx}: {kind} {item_code}"
Error(line, kind, item_code) == [line |-> line, kind |-> kind, item_code |-> item_code]

\* variant of ItemExists: asks the store as it was when the run began
ItemExists_AtStart(items, item_code) == item_code \in DOMAIN store0.Item

\* line 122: frappe.db.exists("Item", item_code), asked of the store as it is
\* when the row is reached
ItemExists(items, item_code) == item_code \in DOMAIN items

\* variant of RowError: lines counted from the first data row, not the header
RowError_DataRowNumber(row, idx, items) ==
    LET item_code == ItemCodeOf(row)
        item_exists == ItemExists(items, item_code)
    IN  IF item_code = "" THEN Error(idx - 1, "Missing Item Code", "")
        ELSE IF ~item_exists /\ ItemNameOf(row) = ""
             THEN Error(idx - 1, "Item Name required for new Item", item_code)
        ELSE IF ~item_exists /\ ItemGroupOf(row) = ""
             THEN Error(idx - 1, "Item Group required for new Item", item_code)
        ELSE IF ~item_exists /\ StockUomOf(row) = ""
             THEN Error(idx - 1, "Stock UOM required for new Item", item_code)
        ELSE Error(idx - 1, "", item_code)

\* variant of RowError: the item group is checked before the item name
RowError_GroupFirst(row, idx, items) ==
    LET item_code == ItemCodeOf(row)
        item_exists == ItemExists(items, item_code)
    IN  IF item_code = "" THEN Error(idx, "Missing Item Code", "")
        ELSE IF ~item_exists /\ ItemGroupOf(row) = ""
             THEN Error(idx, "Item Group required for new Item", item_code)
        ELSE IF ~item_exists /\ ItemNameOf(row) = ""
             THEN Error(idx, "Item Name required for new Item", item_code)
        ELSE IF ~item_exists /\ StockUomOf(row) = ""
             THEN Error(idx, "Stock UOM required for new Item", item_code)
        ELSE Error(idx, "", item_code)

\* lines 118-134: the error the row appends, kind "" when it passes
RowError(row, idx, items) ==
    LET item_code == ItemCodeOf(row)
        item_exists == ItemExists(items, item_code)
    IN  IF item_code = "" THEN Error(idx, "Missing Item Code", "")
        ELSE IF ~item_exists /\ ItemNameOf(row) = ""
             THEN Error(idx, "Item Name required for new Item", item_code)
        ELSE IF ~item_exists /\ ItemGroupOf(row) = ""
             THEN Error(idx, "Item Group required for new Item", item_code)
        ELSE IF ~item_exists /\ StockUomOf(row) = ""
             THEN Error(idx, "Stock UOM required for new Item", item_code)
        ELSE Error(idx, "", item_code)

\* lines 296-320: the fields of the row that are not empty are set on the item
_apply_item_fields(item, row) ==
    [item_name |-> Or(ItemNameOf(row), item.item_name),
     item_group |-> Or(ItemGroupOf(row), item.item_group),
     stock_uom |-> Or(StockUomOf(row), item.stock_uom)]

NewItem == [item_name |-> "", item_group |-> "", stock_uom |-> ""]

\* variant of ImportItem: an inserted item is counted as updated
ImportItem_CountsInsertAsUpdate(items, row, idx, dry_run, update_existing) ==
    LET item_code == ItemCodeOf(row)
    IN  IF dry_run
        THEN [Item |-> items, created |-> 0, updated |-> 0, ops |-> <<>>]
        ELSE IF ItemExists(items, item_code)
        THEN IF update_existing
             THEN [Item |-> [items EXCEPT ![item_code] = _apply_item_fields(@, row)],
                   created |-> 0, updated |-> 1,
                   ops |-> <<Op("Item", "get_doc", item_code, idx),
                             Op("Item", "save", item_code, idx)>>]
             ELSE [Item |-> items, created |-> 0, updated |-> 0,
                   ops |-> <<Op("Item", "get_doc", item_code, idx)>>]
        ELSE [Item |-> (item_code :> _apply_item_fields(NewItem, row)) @@ items,
              created |-> 0, updated |-> 1,
              ops |-> <<Op("Item", "insert", item_code, idx)>>]

\* variant of ImportItem: an existing item is saved whatever update_existing is
ImportItem_AlwaysUpdates(items, row, idx, dry_run, update_existing) ==
    LET item_code == ItemCodeOf(row)
    IN  IF dry_run
        THEN [Item |-> items, created |-> 0, updated |-> 0, ops |-> <<>>]
        ELSE IF ItemExists(items, item_code)
        THEN [Item |-> [items EXCEPT ![item_code] = _apply_item_fields(@, row)],
              created |-> 0, updated |-> 1,
              ops |-> <<Op("Item", "get_doc", item_code, idx),
                        Op("Item", "save", item_code, idx)>>]
        ELSE [Item |-> (item_code :> _apply_item_fields(NewItem, row)) @@ items,
              created |-> 1, updated |-> 0,
              ops |-> <<Op("Item", "insert", item_code, idx)>>]

\* lines 136-148: the Item write of a row that passed validation
ImportItem(items, row, idx, dry_run, update_existing) ==
    LET item_code == ItemCodeOf(row)
        none == [Item |-> items, created |-> 0, updated |-> 0, ops |-> <<>>]
    IN  IF dry_run THEN none
        ELSE IF ItemExists(items, item_code)
        THEN IF update_existing
             THEN [Item |-> [items EXCEPT ![item_code] = _apply_item_fields(@, row)],
                   created |-> 0, updated |-> 1,
                   ops |-> <<Op("Item", "get_doc", item_code, idx),
                             Op("Item", "save", item_code, idx)>>]
             ELSE [none EXCEPT !.ops = <<Op("Item", "get_doc", item_code, idx)>>]
        ELSE [Item |-> (item_code :> _apply_item_fields(NewItem, row)) @@ items,
              created |-> 1, updated |-> 0,
              ops |-> <<Op("Item", "insert", item_code, idx)>>]

\* variant of _upsert_item_price: an existing price is saved whatever
\* update_existing is
_upsert_item_price_AlwaysUpdates(prices, item_code, price_list, currency, rate, update_existing, idx) ==
    LET existing == {p \in prices : /\ p.item_code = item_code
                                    /\ p.price_list = price_list
                                    /\ p.currency = currency
                                    /\ p.selling = 1}
        key == <<item_code, price_list, currency>>
        lookup == Op("Item Price", "get_value", key, idx)
    IN  IF existing # {}
        THEN LET price_doc == CHOOSE p \in existing : TRUE
             IN  [ItemPrice |-> (prices \ {price_doc})
                                \cup {[price_doc EXCEPT !.price_list_rate = rate]},
                  created |-> 0, updated |-> 1,
                  ops |-> <<lookup, Op("Item Price", "save", key, idx)>>]
        ELSE [ItemPrice |-> prices \cup {[item_code |-> item_code, price_list |-> price_list,
                                          price_list_rate |-> rate, currency |-> currency,
                                          selling |-> 1]},
              created |-> 1, updated |-> 0,
              ops |-> <<lookup, Op("Item Price", "insert", key, idx)>>]

\* lines 331-355
_upsert_item_price(prices, item_code, price_list, currency, rate, update_existing, idx) ==
    LET existing == {p \in prices : /\ p.item_code = item_code
                                    /\ p.price_list = price_list
                                    /\ p.currency = currency
                                    /\ p.selling = 1}
        key == <<item_code, price_list, currency>>
        lookup == Op("Item Price", "get_value", key, idx)
    IN  IF existing # {}
        THEN IF update_existing
             THEN LET price_doc == CHOOSE p \in existing : TRUE
                  IN  [ItemPrice |-> (prices \ {price_doc})
                                     \cup {[price_doc EXCEPT !.price_list_rate = rate]},
                       created |-> 0, updated |-> 1,
                       ops |-> <<lookup, Op("Item Price", "save", key, idx)>>]
             ELSE [ItemPrice |-> prices, created |-> 0, updated |-> 0, ops |-> <<lookup>>]
        ELSE [ItemPrice |-> prices \cup {[item_code |-> item_code, price_list |-> price_list,
                                          price_list_rate |-> rate, currency |-> currency,
                                          selling |-> 1]},
              created |-> 1, updated |-> 0,
              ops |-> <<lookup, Op("Item Price", "insert", key, idx)>>]

\* lines 150-172: the Item Price write of a row that passed validation
ImportPrice(prices, row, idx, s, currency_default) ==
    LET price_list == Or(_get_value(row, <<"price_list">>), s.default_price_list)
        price_list_rate == _get_value(row, <<"price_list_rate", "standard_selling_rate",
                                             "standard_rate">>)
        currency == Or(_get_value(row, <<"currency">>), currency_default)
    IN  IF ~s.skip_item_price /\ price_list # "" /\ price_list_rate # "" /\ ~s.dry_run
        THEN _upsert_item_price(prices, ItemCodeOf(row), price_list, currency,
                                flt(price_list_rate), s.update_existing, idx)
        ELSE [ItemPrice |-> prices, created |-> 0, updated |-> 0, ops |-> <<>>]

WarehouseOf(row, s) == Or(_get_value(row, <<"warehouse">>), s.default_warehouse)
OpeningQtyOf(row) == _get_value(row, <<"opening_qty", "opening_stock", "qty">>)
ValuationRateOf(row) == _get_value(row, <<"valuation_rate", "valuation", "rate">>)

\* variant of RecordStock: the pair is recorded but never marked as seen
RecordStock_ForgetsSeen(map, seen, notes, item_code, warehouse, payload, idx) ==
    [stock_map |-> DictSet(map, warehouse,
                       DictSet(IF warehouse \in DictKeys(map)
                               THEN DictGet(map, warehouse) ELSE <<>>,
                               item_code, payload)),
     stock_seen |-> seen,
     log_lines |-> notes]

\* variant of RecordStock: a repeated pair overwrites the recorded contribution
RecordStock_LastWins(map, seen, notes, item_code, warehouse, payload, idx) ==
    [stock_map |-> DictSet(map, warehouse,
                       DictSet(IF warehouse \in DictKeys(map)
                               THEN DictGet(map, warehouse) ELSE <<>>,
                               item_code, payload)),
     stock_seen |-> seen \cup {<<item_code, warehouse>>},
     log_lines |-> IF <<item_code, warehouse>> \in seen
                   THEN Append(notes, [line |-> idx, item_code |-> item_code,
                                       warehouse |-> warehouse])
                   ELSE notes]

\* lines 186-195: a counted contribution is recorded or noted as a duplicate
RecordStock(map, seen, notes, item_code, warehouse, payload, idx) ==
    IF <<item_code, warehouse>> \notin seen
    THEN [stock_map |-> DictSet(map, warehouse,
                            DictSet(IF warehouse \in DictKeys(map)
                                    THEN DictGet(map, warehouse) ELSE <<>>,
                                    item_code, payload)),
          stock_seen |-> seen \cup {<<item_code, warehouse>>},
          log_lines |-> notes]
    ELSE [stock_map |-> map, stock_seen |-> seen,
          log_lines |-> Append(notes, [line |-> idx, item_code |-> item_code,
                                       warehouse |-> warehouse])]

QtyCounts_ZeroIncluded(qty) == qty >= 0

\* line 184: whether a parsed quantity counts
QtyCounts(qty) == qty > 0

\* variant of CollectStock: a quantity that does not count still marks its
\* pair as seen
CollectStock_ClaimsKey(map, seen, notes, row, idx, s) ==
    LET warehouse == WarehouseOf(row, s)
        opening_qty == OpeningQtyOf(row)
        valuation_rate == ValuationRateOf(row)
        qty == flt(opening_qty)
    IN  IF ~s.skip_stock_reconciliation /\ warehouse # "" /\ opening_qty # ""
        THEN IF QtyCounts(qty)
             THEN RecordStock(map, seen, notes, ItemCodeOf(row), warehouse,
                              [qty |-> qty,
                               valuation_rate |-> IF valuation_rate # ""
                                                  THEN flt(valuation_rate) ELSE 0],
                              idx)
             ELSE [stock_map |-> map,
                   stock_seen |-> seen \cup {<<ItemCodeOf(row), warehouse>>},
                   log_lines |-> notes]
        ELSE [stock_map |-> map, stock_seen |-> seen, log_lines |-> notes]

\* lines 174-195: the stock contribution of a row that passed validation
CollectStock(map, seen, notes, row, idx, s) ==
    LET warehouse == WarehouseOf(row, s)
        opening_qty == OpeningQtyOf(row)
        valuation_rate == ValuationRateOf(row)
        qty == flt(opening_qty)
    IN  IF ~s.skip_stock_reconciliation /\ warehouse # "" /\ opening_qty # ""
           /\ QtyCounts(qty)
        THEN RecordStock(map, seen, notes, ItemCodeOf(row), warehouse,
                         [qty |-> qty,
                          valuation_rate |-> IF valuation_rate # "" THEN flt(valuation_rate)
                                             ELSE 0],
                         idx)
        ELSE [stock_map |-> map, stock_seen |-> seen, log_lines |-> notes]

-----------------------------------------------------------------------------
(* The log: lines 259-281 *)

NoSummary ==
    [created_items |-> 0, updated_items |-> 0, created_prices |-> 0,
     updated_prices |-> 0, stock_reconciliations |-> 0]

\* the message _write_log builds: its Summary, Notes and Errors sections
LogMessage(errs, notes, has_summary, summary) ==
    [has_summary |-> has_summary, summary |-> summary, notes |-> notes, errors |-> errs]

EmptyMessage == LogMessage(<<>>, <<>>, FALSE, NoSummary)

\* lines 276-278: db_set only when the message is not empty
_write_log(old_log, errs, notes, has_summary, summary) ==
    LET message == LogMessage(errs, notes, has_summary, summary)
    IN  IF message # EmptyMessage THEN message ELSE old_log

-----------------------------------------------------------------------------
(* State *)

Store == [Item |-> Item, ItemPrice |-> ItemPrice,
          StockReconciliation |-> StockReconciliation]

NoItems == [c \in {} |-> NewItem]

\* the stores a session starts from: empty, item A on file, item A with a price
InitialStores ==
    LET a == ("A" :> [item_name |-> "Old Widget", item_group |-> "Parts",
                      stock_uom |-> "Nos"])
        price == [item_code |-> "A", price_list |-> "Standard Selling",
                  price_list_rate |-> 10, currency |-> "INR", selling |-> 1]
    IN  {[Item |-> NoItems, ItemPrice |-> {}],
         [Item |-> a, ItemPrice |-> {}],
         [Item |-> a, ItemPrice |-> {price}]}

\* the settings a session is given; dry_run and update_existing are set before
\* each run
Settings ==
    [csv_file : BOOLEAN,
     default_company : {"", "CoA"},
     default_currency : {""},
     default_price_list : {"", "Standard Selling"},
     default_warehouse : {"", "WH1"},
     difference_account : DifferenceAccounts,
     dry_run : {FALSE},
     update_existing : {FALSE},
     skip_item_price : BOOLEAN,
     skip_stock_reconciliation : BOOLEAN]

\* the settings of the two-run sessions: a file attached, defaults filled in,
\* prices imported, a difference account that is accepted or rejected
RerunSettings ==
    {s \in Settings : /\ s.csv_file
                      /\ s.default_price_list # ""
                      /\ s.default_warehouse # ""
                      /\ s.default_company = ""
                      /\ ~s.skip_item_price
                      /\ s.difference_account \in {"Stock Adjustment - A", "Expenses - A"}}

GlobalDefaults == [default_company : {"", "CoB"}, default_currency : {"INR"}]

NoResult == [returned |-> FALSE, value |-> NoSummary]

InitWith(settings, globals, runs) ==
    /\ self \in settings
    /\ global_defaults \in globals
    /\ \E st \in InitialStores :
         /\ Item = st.Item
         /\ ItemPrice = st.ItemPrice
         /\ store0 = [Item |-> st.Item, ItemPrice |-> st.ItemPrice,
                      StockReconciliation |-> <<>>]
         /\ prev = [run |-> 0, dry_run |-> FALSE, update_existing |-> FALSE,
                    errors |-> <<>>, pc |-> "idle", abort |-> "", file |-> <<>>,
                    store0 |-> [Item |-> st.Item, ItemPrice |-> st.ItemPrice,
                                StockReconciliation |-> <<>>],
                    result |-> NoResult]
    /\ StockReconciliation = <<>>
    /\ file = <<>>
    /\ eof = FALSE
    /\ pc = "idle"
    /\ row_idx = 2
    /\ created_items = 0 /\ updated_items = 0
    /\ created_prices = 0 /\ updated_prices = 0
    /\ stock_recos = 0
    /\ errors = <<>> /\ log_lines = <<>>
    /\ stock_map = <<>> /\ stock_seen = {}
    /\ default_company = "" /\ default_currency = ""
    /\ wh_pos = 1
    /\ abort = ""
    /\ error_msg = ""
    /\ result = NoResult
    /\ import_log = EmptyMessage
    /\ error_log = <<>>
    /\ ops = <<>>
    /\ run = 0
    /\ runs_allowed = runs

Init == InitWith(Settings, GlobalDefaults, 1)

InitRerun == InitWith(RerunSettings, [default_company : {""}, default_currency : {"INR"}],
                      MaxRuns)

-----------------------------------------------------------------------------
(* Actions *)

\* lines 33-103: import_csv is called; it sets up its locals and validates the
\* configuration
StartImport ==
    /\ pc \in {"idle", "done", "aborted"}
    /\ run < runs_allowed
    /\ \E dry_run \in BOOLEAN, update_existing \in BOOLEAN :
         LET s == [self EXCEPT !.dry_run = dry_run, !.update_existing = update_existing]
             thrown == IF ~s.csv_file THEN "no_csv_file"
                       ELSE ConfigError(s, global_defaults)
         IN  /\ self' = s
             /\ default_company' = IF s.csv_file THEN ResolveCompany(s, global_defaults)
                                   ELSE ""
             /\ default_currency' = IF s.csv_file
                                    THEN Or(s.default_currency,
                                            global_defaults.default_currency)
                                    ELSE ""
             /\ abort' = thrown
             /\ pc' = IF thrown = "" THEN "scan" ELSE "aborted"
    /\ prev' = IF run = 0 THEN prev
               ELSE [run |-> run, dry_run |-> self.dry_run,
                     update_existing |-> self.update_existing, errors |-> errors,
                     pc |-> pc, abort |-> abort, file |-> file, store0 |-> store0,
                     result |-> result]
    /\ run' = run + 1
    /\ store0' = Store
    /\ row_idx' = 2
    /\ created_items' = 0 /\ updated_items' = 0
    /\ created_prices' = 0 /\ updated_prices' = 0
    /\ stock_recos' = 0
    /\ errors' = <<>> /\ log_lines' = <<>>
    /\ stock_map' = <<>> /\ stock_seen' = {}
    /\ wh_pos' = 1
    /\ error_msg' = ""
    /\ result' = NoResult
    /\ ops' = <<>>
    /\ UNCHANGED <<global_defaults, Item, ItemPrice, StockReconciliation, file, eof,
                   import_log, error_log, runs_allowed>>

RowCalls_PriceFirst(exists, item_calls, price_calls) ==
    exists \o price_calls \o item_calls

\* lines 122-172: the order in which a passing row issues its store calls
RowCalls(exists, item_calls, price_calls) == exists \o item_calls \o price_calls

\* the rows the reader can yield next: the file's next row, or, while no run has
\* reached the end of the file, any row
NextRows ==
    IF row_idx - 1 <= Len(file) THEN {file[row_idx - 1]}
    ELSE IF ~eof /\ Len(file) < MaxRows THEN RowSet
    ELSE {}

\* lines 105-195: the loop body for one data row
ScanRow ==
    /\ pc = "scan"
    /\ \E row \in NextRows :
         LET err == RowError(row, row_idx, Item)
             item_code == ItemCodeOf(row)
             exists == IF item_code = "" THEN <<>>
                       ELSE <<Op("Item", "exists", item_code, row_idx)>>
             it == ImportItem(Item, row, row_idx, self.dry_run, self.update_existing)
             pr == ImportPrice(ItemPrice, row, row_idx, self, default_currency)
             st == CollectStock(stock_map, stock_seen, log_lines, row, row_idx, self)
         IN  /\ file' = IF row_idx - 1 <= Len(file) THEN file ELSE Append(file, row)
             /\ IF err.kind # ""
                THEN /\ errors' = Append(errors, err)
                     /\ ops' = ops \o exists
                     /\ UNCHANGED <<Item, ItemPrice, created_items, updated_items,
                                    created_prices, updated_prices, stock_map,
                                    stock_seen, log_lines>>
                ELSE /\ Item' = it.Item
                     /\ created_items' = created_items + it.created
                     /\ updated_items' = updated_items + it.updated
                     /\ ItemPrice' = pr.ItemPrice
                     /\ created_prices' = created_prices + pr.created
                     /\ updated_prices' = updated_prices + pr.updated
                     /\ stock_map' = st.stock_map
                     /\ stock_seen' = st.stock_seen
                     /\ log_lines' = st.log_lines
                     /\ ops' = ops \o RowCalls(exists, it.ops, pr.ops)
                     /\ UNCHANGED errors
    /\ row_idx' = row_idx + 1
    /\ UNCHANGED <<self, global_defaults, StockReconciliation, pc, stock_recos,
                   default_company, default_currency, wh_pos, abort, error_msg,
                   result, import_log, error_log, store0, run, runs_allowed, eof,
                   prev>>

HasErrors_Never(errs) == FALSE

\* line 197: `if errors`
HasErrors(errs) == errs # <<>>

\* lines 197-199: the reader is exhausted; row errors end the run
EndScan ==
    /\ pc = "scan"
    /\ row_idx - 1 > Len(file)
    /\ eof' = TRUE
    /\ IF HasErrors(errors)
       THEN /\ import_log' = _write_log(import_log, errors, log_lines, FALSE, NoSummary)
            /\ error_log' = Append(error_log,
                                   LogMessage(errors, log_lines, FALSE, NoSummary))
            /\ abort' = "row_errors"
            /\ pc' = "aborted"
       ELSE /\ pc' = "commit"
            /\ UNCHANGED <<import_log, error_log, abort>>
    /\ UNCHANGED <<self, global_defaults, Item, ItemPrice, StockReconciliation, file,
                   row_idx, created_items, updated_items, created_prices,
                   updated_prices, stock_recos, errors, log_lines, stock_map,
                   stock_seen, default_company, default_currency, wh_pos, error_msg,
                   result, ops, store0, run, runs_allowed, prev>>

CommitsStock_IgnoresDryRun(s) == ~s.skip_stock_reconciliation

\* line 201: whether the run commits stock
CommitsStock(s) == ~s.skip_stock_reconciliation /\ ~s.dry_run

\* lines 205-222: the document built for one warehouse group
StockRecoDoc(warehouse, items, company, difference_account) ==
    [purpose |-> "Opening Stock", company |-> company,
     difference_account |-> difference_account,
     items |-> [i \in DOMAIN items |->
                   [item_code |-> items[i].k, warehouse |-> warehouse,
                    qty |-> items[i].v.qty,
                    valuation_rate |-> items[i].v.valuation_rate]],
     docstatus |-> 0]

\* the messages of the ValidationErrors the store raises at lines 225-226
Messages == {"Difference Account is required",
             "Account type must be Asset or Liability",
             "Valuation Rate required for Item"}

\* Python's `word in msg` on these messages
Contains(msg, word) ==
    <<msg, word>> \in {<<"Difference Account is required", "Difference Account">>,
                       <<"Account type must be Asset or Liability", "Asset">>}

TranslatesError_DifferenceAccountOnly(msg) == Contains(msg, "Difference Account")

\* line 230: whether the caught error is rethrown as an invalid difference account
TranslatesError(msg) == Contains(msg, "Difference Account") \/ Contains(msg, "Asset")

\* what the store can answer to the insert and the submit of lines 225-226:
\* both succeed, or one of them raises a ValidationError
Outcomes == {[at |-> "", msg |-> ""]} \cup [at : {"insert", "submit"}, msg : Messages]

\* lines 202-237: the loop body for one warehouse group
CommitStock ==
    /\ pc = "commit"
    /\ CommitsStock(self)
    /\ wh_pos <= Len(stock_map)
    /\ LET warehouse == stock_map[wh_pos].k
           items == stock_map[wh_pos].v
           stock_reco == StockRecoDoc(warehouse, items, default_company,
                                      self.difference_account)
           insert == Op("Stock Reconciliation", "insert", warehouse, 0)
           submit == Op("Stock Reconciliation", "submit", warehouse, 0)
       IN  IF items = <<>>
           THEN /\ wh_pos' = wh_pos + 1
                /\ UNCHANGED <<StockReconciliation, stock_recos, ops, abort, pc,
                               error_msg>>
           ELSE \E outcome \in Outcomes :
                  /\ StockReconciliation' =
                        CASE outcome.at = "" ->
                               Append(StockReconciliation,
                                      [stock_reco EXCEPT !.docstatus = 1])
                          [] outcome.at = "submit" ->
                               Append(StockReconciliation, stock_reco)
                          [] OTHER -> StockReconciliation
                  /\ ops' = IF outcome.at = "insert" THEN Append(ops, insert)
                            ELSE ops \o <<insert, submit>>
                  /\ stock_recos' = IF outcome.at = "" THEN stock_recos + 1
                                    ELSE stock_recos
                  /\ wh_pos' = IF outcome.at = "" THEN wh_pos + 1 ELSE wh_pos
                  /\ error_msg' = outcome.msg
                  /\ abort' = CASE outcome.at = "" -> abort
                                [] TranslatesError(outcome.msg) ->
                                     "stock:difference_account"
                                [] OTHER -> "stock:validation"
                  /\ pc' = IF outcome.at = "" THEN pc ELSE "aborted"
    /\ UNCHANGED <<self, global_defaults, Item, ItemPrice, file, row_idx,
                   created_items, updated_items, created_prices, updated_prices,
                   errors, log_lines, stock_map, stock_seen, default_company,
                   default_currency, result, import_log, error_log, store0, run,
                   runs_allowed, eof, prev>>

\* the dict import_csv returns and logs
Summary ==
    [created_items |-> created_items, updated_items |-> updated_items,
     created_prices |-> created_prices, updated_prices |-> updated_prices,
     stock_reconciliations |-> stock_recos]

\* lines 239-257: the final log and the return value
Finish ==
    /\ pc = "commit"
    /\ ~CommitsStock(self) \/ wh_pos > Len(stock_map)
    /\ import_log' = _write_log(import_log, errors, log_lines, TRUE, Summary)
    /\ result' = [returned |-> TRUE, value |-> Summary]
    /\ pc' = "done"
    /\ UNCHANGED <<self, global_defaults, Item, ItemPrice, StockReconciliation, file,
                   row_idx, created_items, updated_items, created_prices,
                   updated_prices, stock_recos, errors, log_lines, stock_map,
                   stock_seen, default_company, default_currency, wh_pos, abort,
                   error_msg, error_log, ops, store0, run, runs_allowed, eof, prev>>

Next == StartImport \/ ScanRow \/ EndScan \/ CommitStock \/ Finish

\* one run of import_csv, from every setting and starting store
Spec == Init /\ [][Next]_vars

\* MaxRuns runs of import_csv on the same file and document
SpecRerun == InitRerun /\ [][Next]_vars

-----------------------------------------------------------------------------
(* Vocabulary of the properties *)

\* the writes among the store calls a run issued
Writes(o) == SelectSeq(o, LAMBDA x : x.call \in {"insert", "save", "submit"})

\* the row-level reads among the store calls a run issued
RowReads(o) == SelectSeq(o, LAMBDA x : x.call \in {"exists", "get_doc", "get_value"})

ConfigAborts == {"config:required", "config:not_found", "config:group",
                 "config:root_type", "config:company"}

StockAborts == {"stock:difference_account", "stock:validation"}

\* the data rows the current run has scanned, by position in the file
Scanned == 1 .. (row_idx - 2)

\* the errors the current run appended for data row k (line k + 1)
ErrorsOf(k) == {i \in DOMAIN errors : errors[i].line = k + 1}

\* C1: if a row failed validation, the run has issued no Item, Item Price or
\* Stock Reconciliation write at any point, and the store is as it started.
C1_AllOrNothing ==
    errors # <<>> => Writes(ops) = <<>> /\ Store = store0

\* C2: a dry run issues no Item, Item Price or Stock Reconciliation write,
\* however it ends, and leaves the three tables as they were.
C2_DryRunNoMutation ==
    (run >= 1 /\ self.dry_run) => Writes(ops) = <<>> /\ Store = store0

\* a dry run that ended with row errors after scanning a row that passed and
\* carried a price and stock
C2_Witness ==
    /\ self.dry_run
    /\ pc = "aborted" /\ abort = "row_errors"
    /\ Len(file) > Len(errors)
    /\ stock_map # <<>>
    /\ ~self.skip_item_price

\* the scan of a run ran to the end of the file
ScanCompleted(at, thrown) ==
    at \in {"commit", "done"} \/ (at = "aborted" /\ thrown \in {"row_errors"} \cup StockAborts)

\* C3: a dry run and a real run on the same file, settings and starting store
\* produce the same ordered list of row errors.
C3_DryRunSameErrors ==
    ( /\ run >= 2
      /\ prev.dry_run # self.dry_run
      /\ prev.update_existing = self.update_existing
      /\ prev.store0 = store0
      /\ prev.file = file
      /\ ScanCompleted(prev.pc, prev.abort)
      /\ ScanCompleted(pc, abort) )
    => errors = prev.errors

\* the configuration faults of the claim, in its own words
BadConfiguration ==
    LET da == self.difference_account
    IN  \/ da = "" /\ ~self.skip_stock_reconciliation
        \/ da # "" /\ da \notin DOMAIN Account
        \/ /\ da \in DOMAIN Account
           /\ \/ Account[da].is_group
              \/ Account[da].root_type \notin {"Asset", "Liability"}
              \/ Account[da].company # default_company

\* C4: with a faulty difference account the run aborts before the first data
\* row, with no store write and no row-level read.
C4_ConfigFailFast ==
    (run >= 1 /\ self.csv_file /\ BadConfiguration)
    => /\ pc = "aborted"
       /\ abort \in ConfigAborts
       /\ row_idx = 2
       /\ Writes(ops) = <<>>
       /\ RowReads(ops) = <<>>
       /\ Store = store0

\* an Expense account was rejected
C4_Witness ==
    /\ pc = "aborted" /\ abort = "config:root_type"
    /\ self.difference_account = "Expenses - A"
    /\ Account[self.difference_account].root_type = "Expense"

\* C5: a run that a failed Stock Reconciliation aborted leaves none of its Item
\* or Item Price writes in the store.
C5_NoPartialProgress ==
    (pc = "aborted" /\ abort \in StockAborts)
    => Item = store0.Item /\ ItemPrice = store0.ItemPrice

\* C6: after a real run imported the file without errors, a second run on the
\* same file with update_existing unset, against the store the first run left
\* (which holds every item of the file), returns 0 created and 0 updated items.
C6_Idempotent ==
    ( /\ run >= 2
      /\ prev.pc = "done" /\ ~prev.dry_run
      /\ prev.file = file
      /\ ~self.update_existing
      /\ pc = "done" )
    => /\ \A k \in DOMAIN file : ItemCodeOf(file[k]) \in DOMAIN store0.Item
       /\ result.returned
       /\ result.value.created_items = 0
       /\ result.value.updated_items = 0

\* the second run returned after a first run that created an item
C6_Witness ==
    /\ run >= 2
    /\ prev.pc = "done" /\ ~prev.dry_run
    /\ prev.result.value.created_items >= 1
    /\ ~self.update_existing /\ ~self.dry_run
    /\ pc = "done"
    /\ Len(file) >= 2

\* data row k passed validation and carries a positive quantity for the pair
CarriesStock(k, item_code, warehouse) ==
    /\ k \in Scanned
    /\ ErrorsOf(k) = {}
    /\ ItemCodeOf(file[k]) = item_code
    /\ WarehouseOf(file[k], self) = warehouse
    /\ warehouse # ""
    /\ flt(OpeningQtyOf(file[k])) > 0

\* the (item code, warehouse) pairs of the rows scanned so far
Pairs == {<<ItemCodeOf(file[k]), WarehouseOf(file[k], self)>> : k \in Scanned}

RowsOf(pair) == {k \in Scanned : CarriesStock(k, pair[1], pair[2])}

\* the places of the stock map that hold a contribution for the pair
Contributions(pair) ==
    {<<i, j>> \in (DOMAIN stock_map) \X (1 .. MaxRows + 1) :
        /\ j \in DOMAIN stock_map[i].v
        /\ stock_map[i].k = pair[2]
        /\ stock_map[i].v[j].k = pair[1]}

NotesOf(k) == {i \in DOMAIN log_lines : log_lines[i].line = k + 1}

\* one contribution, that of the first row; one note per later row; no error
Deduplicated(pair) ==
    LET rows == RowsOf(pair)
        first == CHOOSE k \in rows : \A m \in rows : k <= m
        valuation == ValuationRateOf(file[first])
    IN  /\ Cardinality(Contributions(pair)) = 1
        /\ \A c \in Contributions(pair) :
             /\ stock_map[c[1]].v[c[2]].v.qty = flt(OpeningQtyOf(file[first]))
             /\ stock_map[c[1]].v[c[2]].v.valuation_rate =
                   IF valuation = "" THEN 0 ELSE flt(valuation)
        /\ NotesOf(first) = {}
        /\ \A k \in rows \ {first} :
             /\ Cardinality(NotesOf(k)) = 1
             /\ \A i \in NotesOf(k) : /\ log_lines[i].item_code = pair[1]
                                      /\ log_lines[i].warehouse = pair[2]
             /\ ErrorsOf(k) = {}

\* C7 as stated: whatever the settings, a pair that two or more valid rows
\* carry with positive quantity is recorded once, with the first row's values
\* and one note per later row.
C7_AnySettings ==
    \A pair \in Pairs : Cardinality(RowsOf(pair)) >= 2 => Deduplicated(pair)

\* C7, amended: the same, in runs with skip_stock_reconciliation unset.
C7_StockDeduplication ==
    \A pair \in Pairs :
        (~self.skip_stock_reconciliation /\ Cardinality(RowsOf(pair)) >= 2)
        => Deduplicated(pair)

\* two valid rows with different quantities for one pair were scanned
C7_Witness ==
    /\ ~self.skip_stock_reconciliation
    /\ \E pair \in Pairs :
         /\ Cardinality(RowsOf(pair)) >= 2
         /\ \E k, m \in RowsOf(pair) : OpeningQtyOf(file[k]) # OpeningQtyOf(file[m])
    /\ Len(log_lines) = 1

\* the Stock Reconciliations this run left in the store
NewRecos ==
    SubSeq(StockReconciliation, Len(store0.StockReconciliation) + 1,
           Len(StockReconciliation))

\* the warehouses with at least one counted contribution
CountedWarehouses ==
    {w \in {WarehouseOf(file[k], self) : k \in Scanned} :
        \E k \in Scanned : CarriesStock(k, ItemCodeOf(file[k]), w)}

StockOps(call, warehouse) ==
    {i \in DOMAIN ops : /\ ops[i].doctype = "Stock Reconciliation"
                        /\ ops[i].call = call
                        /\ ops[i].key = warehouse}

\* C8: a real run without row errors, with stock not skipped and every submit
\* succeeding, inserts and submits exactly one Stock Reconciliation for each
\* warehouse with a counted contribution and none for any other, and returns
\* their number.
C8_OneRecoPerWarehouse ==
    (pc = "done" /\ ~self.dry_run /\ ~self.skip_stock_reconciliation)
    => /\ errors = <<>>
       /\ \A w \in CountedWarehouses :
            /\ Cardinality(StockOps("insert", w)) = 1
            /\ Cardinality(StockOps("submit", w)) = 1
            /\ Cardinality({i \in DOMAIN NewRecos :
                              /\ NewRecos[i].docstatus = 1
                              /\ NewRecos[i].items # <<>>
                              /\ \A j \in DOMAIN NewRecos[i].items :
                                   NewRecos[i].items[j].warehouse = w}) = 1
       /\ \A i \in DOMAIN ops :
            ops[i].doctype = "Stock Reconciliation" => ops[i].key \in CountedWarehouses
       /\ Len(NewRecos) = Cardinality(CountedWarehouses)
       /\ result.value.stock_reconciliations = Cardinality(CountedWarehouses)

\* a run committed stock for two warehouses
C8_Witness ==
    /\ pc = "done" /\ ~self.dry_run /\ ~self.skip_stock_reconciliation
    /\ Cardinality(CountedWarehouses) = 2
    /\ Len(NewRecos) = 2

\* data row k has no item code under any of its aliases
NoItemCode(k) ==
    file[k]["item_code"] = "" /\ file[k]["itemcode"] = "" /\ file[k]["sku"] = ""

\* C9: every scanned data row k without an item code has exactly one error, a
\* "Missing Item Code" that names line k + 1.
C9_MissingItemCode ==
    \A k \in Scanned :
        NoItemCode(k)
        => /\ Cardinality(ErrorsOf(k)) = 1
           /\ \A i \in ErrorsOf(k) : errors[i].kind = "Missing Item Code"
           /\ \A i \in DOMAIN errors :
                errors[i].kind = "Missing Item Code" => NoItemCode(errors[i].line - 1)

\* the second data row has no item code and the first one passed
C9_Witness ==
    /\ 2 \in Scanned
    /\ NoItemCode(2) /\ ~NoItemCode(1)
    /\ errors = <<Error(3, "Missing Item Code", "")>>

\* whether the item of data row k was in the store when the row was scanned:
\* it was there when the run started, or an earlier row of the run inserted it
ExistedAt(k) ==
    \/ ItemCodeOf(file[k]) \in DOMAIN store0.Item
    \/ \E i \in DOMAIN ops : /\ ops[i].doctype = "Item" /\ ops[i].call = "insert"
                             /\ ops[i].key = ItemCodeOf(file[k])
                             /\ ops[i].line < k + 1

\* the first failing check of data row k, in the order of the claim
FirstFailure(k) ==
    CASE NoItemCode(k) -> "Missing Item Code"
      [] ~ExistedAt(k) /\ ItemNameOf(file[k]) = "" -> "Item Name required for new Item"
      [] ~ExistedAt(k) /\ ItemGroupOf(file[k]) = "" -> "Item Group required for new Item"
      [] ~ExistedAt(k) /\ StockUomOf(file[k]) = "" -> "Stock UOM required for new Item"
      [] OTHER -> ""

\* every scanned row has at most one error, that of its first failing check, a
\* failing row caused no write, and the errors are in ascending line order
OrderedTotal ==
    /\ \A k \in Scanned :
         /\ Cardinality(ErrorsOf(k)) <= 1
         /\ (FirstFailure(k) = "") <=> (ErrorsOf(k) = {})
         /\ \A i \in ErrorsOf(k) : errors[i].kind = FirstFailure(k)
         /\ ErrorsOf(k) # {} =>
               \A i \in DOMAIN ops : ops[i].line = k + 1 => ops[i].call = "exists"
    /\ \A i \in DOMAIN errors : errors[i].line - 1 \in Scanned
    /\ \A i, j \in DOMAIN errors : i < j => errors[i].line < errors[j].line
    /\ \A key \in stock_seen : RowsOf(key) # {}

\* a step that appends an error leaves the store, the counts, the stock map and
\* the notes alone, and moves on to the next row
FailingRowSkipped ==
    Len(errors') > Len(errors)
    => /\ Len(errors') = Len(errors) + 1
       /\ Store' = Store
       /\ Summary' = Summary
       /\ stock_map' = stock_map /\ stock_seen' = stock_seen
       /\ log_lines' = log_lines
       /\ pc' = "scan" /\ row_idx' = row_idx + 1

\* C10: each row appends at most one error, that of the first failing check in
\* the order code, name, group, uom; a failing row yields no item, price or
\* stock candidate; the scan goes on, so the errors cover every failing row in
\* ascending line order.
C10_OrderedTotalValidation == []OrderedTotal /\ [][FailingRowSkipped]_vars

\* a row that failed the group check was followed by another failing row
C10_Witness ==
    /\ Len(errors) = 2
    /\ errors[1].kind = "Item Group required for new Item"
    /\ errors[2].kind = "Stock UOM required for new Item"
    /\ pc = "aborted"

\* a step that scans one data row, and the row it scans
ScanStep == pc = "scan" /\ row_idx' = row_idx + 1
StepRow == file'[row_idx - 1]

\* a step that scans a row that passes validation
PassingStep == ScanStep /\ errors' = errors

\* the store calls a step issued
StepOps == SubSeq(ops', Len(ops) + 1, Len(ops'))

\* the calls of the given kinds among the store calls of a step
StepCalls(doctype, calls) ==
    SelectSeq(StepOps, LAMBDA x : x.doctype = doctype /\ x.call \in calls)

\* the item upsert of the row a step scans
ItemUpserted ==
    LET item_code == ItemCodeOf(StepRow)
        written == StepCalls("Item", {"insert", "save"})
    IN  /\ (item_code \in DOMAIN Item /\ self.update_existing)
           => /\ written = <<Op("Item", "save", item_code, row_idx)>>
              /\ DOMAIN Item' = DOMAIN Item
              /\ \A c \in DOMAIN Item \ {item_code} : Item'[c] = Item[c]
              /\ updated_items' = updated_items + 1
              /\ created_items' = created_items
        /\ item_code \notin DOMAIN Item
           => /\ written = <<Op("Item", "insert", item_code, row_idx)>>
              /\ DOMAIN Item' = DOMAIN Item \cup {item_code}
              /\ \A c \in DOMAIN Item : Item'[c] = Item[c]
              /\ created_items' = created_items + 1
              /\ updated_items' = updated_items
        /\ (item_code \in DOMAIN Item /\ ~self.update_existing)
           => /\ written = <<>>
              /\ Item' = Item
              /\ created_items' = created_items
              /\ updated_items' = updated_items

\* C11: in a real run each valid row updates its item in place when it exists
\* and update_existing is set (updated_items + 1), inserts it when it is absent
\* (created_items + 1), and otherwise issues no Item write and changes no count.
C11_ItemUpsert == [][(PassingStep /\ ~self.dry_run) => ItemUpserted]_vars

\* a real run has updated one item and inserted another
C11_Witness ==
    /\ ~self.dry_run /\ self.update_existing
    /\ created_items = 1 /\ updated_items = 1
    /\ Len(Writes(ops)) >= 2

\* the price list, rate text and currency a data row gives for its price
PriceListOf(row) ==
    IF row["price_list"] # "" THEN row["price_list"] ELSE self.default_price_list
PriceRateOf(row) ==
    IF row["price_list_rate"] # "" THEN row["price_list_rate"]
    ELSE IF row["standard_selling_rate"] # "" THEN row["standard_selling_rate"]
    ELSE row["standard_rate"]
CurrencyOf(row) ==
    IF row["currency"] # "" THEN row["currency"]
    ELSE IF self.default_currency # "" THEN self.default_currency
    ELSE global_defaults.default_currency

\* the price upsert of the row a step of a real run scans
PriceUpserted ==
    LET item_code == ItemCodeOf(StepRow)
        key == <<item_code, PriceListOf(StepRow), CurrencyOf(StepRow)>>
        present == {p \in ItemPrice : /\ <<p.item_code, p.price_list, p.currency>> = key
                                      /\ p.selling = 1}
        written == StepCalls("Item Price", {"insert", "save"})
        unwritten == /\ written = <<>>
                     /\ ItemPrice' = ItemPrice
                     /\ created_prices' = created_prices
                     /\ updated_prices' = updated_prices
    IN  IF PriceListOf(StepRow) = "" \/ PriceRateOf(StepRow) = ""
        THEN unwritten
        ELSE /\ present = {}
                => /\ written = <<Op("Item Price", "insert", key, row_idx)>>
                   /\ ItemPrice' = ItemPrice \cup
                         {[item_code |-> item_code, price_list |-> key[2],
                           currency |-> key[3], selling |-> 1,
                           price_list_rate |-> flt(PriceRateOf(StepRow))]}
                   /\ created_prices' = created_prices + 1
                   /\ updated_prices' = updated_prices
             /\ (present # {} /\ self.update_existing)
                => /\ written = <<Op("Item Price", "save", key, row_idx)>>
                   /\ Cardinality(ItemPrice') = Cardinality(ItemPrice)
                   /\ \A p \in present :
                        [p EXCEPT !.price_list_rate = flt(PriceRateOf(StepRow))]
                           \in ItemPrice'
                   /\ ItemPrice \ present \subseteq ItemPrice'
                   /\ updated_prices' = updated_prices + 1
                   /\ created_prices' = created_prices
             /\ (present # {} /\ ~self.update_existing) => unwritten

\* C12: in a real run with skip_item_price unset, each valid row with a price
\* list and a rate inserts its Item Price when absent (created_prices + 1),
\* saves it only when present and update_existing is set (updated_prices + 1),
\* and otherwise writes nothing, whatever happened to the row's item; with
\* skip_item_price set no Item Price call is issued at all.
C12_PriceUpsert ==
    [][ /\ (PassingStep /\ ~self.dry_run /\ ~self.skip_item_price) => PriceUpserted
        /\ (ScanStep /\ self.skip_item_price)
           => /\ StepCalls("Item Price", {"get_value", "insert", "save"}) = <<>>
              /\ ItemPrice' = ItemPrice
              /\ created_prices' = created_prices
              /\ updated_prices' = updated_prices ]_vars

\* a price was inserted for an item the run left untouched, and another price
\* was found and left unwritten
C12_Witness ==
    /\ ~self.dry_run /\ ~self.skip_item_price /\ ~self.update_existing
    /\ created_items = 0 /\ updated_items = 0
    /\ created_prices = 1
    /\ Len(SelectSeq(ops, LAMBDA x : x.doctype = "Item Price" /\ x.call = "get_value")) = 2

\* the settings name no company and the difference account is an existing
\* Asset or Liability ledger
AdoptableAccount ==
    /\ run >= 1 /\ self.csv_file
    /\ self.default_company = ""
    /\ self.difference_account \in DOMAIN Account
    /\ ~Account[self.difference_account].is_group
    /\ Account[self.difference_account].root_type \in {"Asset", "Liability"}

\* the run works with the account's company and did not reject it
CompanyAdopted ==
    /\ default_company = Account[self.difference_account].company
    /\ abort # "config:company"

\* C13 as stated: with no company in the settings and a valid difference
\* account the run adopts the account's company, whatever the store-wide
\* default company is.
C13_AnyStoreDefault == AdoptableAccount => CompanyAdopted

\* C13, amended: the same, when the store-wide default company is unset or is
\* the account's company.
C13_CompanyAdoption ==
    ( /\ AdoptableAccount
      /\ global_defaults.default_company
            \in {"", Account[self.difference_account].company} )
    => CompanyAdopted

\* a run adopted the account's company and submitted a Stock Reconciliation
\* for it
C13_Witness ==
    /\ AdoptableAccount
    /\ global_defaults.default_company = ""
    /\ default_company = "CoA"
    /\ pc = "done"
    /\ Len(NewRecos) = 1 /\ NewRecos[1].company = "CoA"

\* the log the current run would leave: its counts and its notes
DescribesThisRun(log) ==
    /\ log.has_summary
    /\ log.summary = Summary
    /\ log.notes = log_lines

\* C14: whatever way a run ends, the import_log field then holds that run's
\* summary counts and notes.
C14_FinalLog ==
    (run >= 1 /\ self.csv_file /\ pc \in {"done", "aborted"})
    => DescribesThisRun(import_log)

\* the warehouse whose Stock Reconciliation the run is committing
CurrentWarehouse == stock_map[wh_pos].k

\* C15: when a Stock Reconciliation fails with a validation error, the run ends
\* with an invalid-difference-account error if the message mentions the
\* difference account or the asset type and with the error itself otherwise;
\* the failed warehouse was tried once and is not counted, and no later
\* warehouse is tried.
C15_StockFailure ==
    (pc = "aborted" /\ abort \in StockAborts)
    => /\ error_msg \in Messages
       /\ abort = IF error_msg \in {"Difference Account is required",
                                    "Account type must be Asset or Liability"}
                  THEN "stock:difference_account" ELSE "stock:validation"
       /\ Cardinality(StockOps("insert", CurrentWarehouse)) = 1
       /\ Cardinality(StockOps("submit", CurrentWarehouse)) <= 1
       /\ \A j \in (wh_pos + 1) .. Len(stock_map) :
            /\ StockOps("insert", stock_map[j].k) = {}
            /\ StockOps("submit", stock_map[j].k) = {}
       /\ stock_recos = wh_pos - 1
       /\ stock_recos = Cardinality({i \in DOMAIN NewRecos : NewRecos[i].docstatus = 1})
       /\ \A i \in DOMAIN NewRecos :
            NewRecos[i].docstatus = 1 =>
               \A j \in DOMAIN NewRecos[i].items :
                  NewRecos[i].items[j].warehouse # CurrentWarehouse
       /\ ~result.returned

\* the first of two warehouses failed with a message about the asset type
C15_Witness ==
    /\ pc = "aborted" /\ abort = "stock:difference_account"
    /\ error_msg = "Account type must be Asset or Liability"
    /\ wh_pos = 1 /\ Len(stock_map) = 2

\* C16: every Stock Reconciliation insert or submit of a run comes after its
\* last Item and Item Price write, a row's Item write comes before its Item
\* Price write, and rows are written in file order.
C16_CommitOrder ==
    \A i, j \in DOMAIN ops :
        ( /\ i < j
          /\ ops[i].call \in {"insert", "save", "submit"}
          /\ ops[j].call \in {"insert", "save", "submit"} )
        => /\ ops[i].doctype = "Stock Reconciliation"
              => ops[j].doctype = "Stock Reconciliation"
           /\ (ops[i].doctype # "Stock Reconciliation"
               /\ ops[j].doctype # "Stock Reconciliation")
              => /\ ops[i].line <= ops[j].line
                 /\ ops[i].line = ops[j].line
                    => (ops[i].doctype = "Item" /\ ops[j].doctype = "Item Price")

\* a run wrote an item and its price for two rows and then submitted stock
C16_Witness ==
    /\ pc = "done"
    /\ Cardinality(StockOps("submit", "WH1")) = 1
    /\ Cardinality({i \in DOMAIN ops : ops[i].doctype = "Item"
                                       /\ ops[i].call \in {"insert", "save"}}) = 2
    /\ Cardinality({i \in DOMAIN ops : ops[i].doctype = "Item Price"
                                       /\ ops[i].call \in {"insert", "save"}}) = 2

\* the Stock Reconciliation calls the run has issued
AllStockOps == {i \in DOMAIN ops : ops[i].doctype = "Stock Reconciliation"}

\* C17: a run issues a Stock Reconciliation insert or submit only after a
\* complete scan that left no error, with dry_run and
\* skip_stock_reconciliation unset; a run with a row error creates none.
C17_StockGated ==
    /\ (AllStockOps # {} \/ NewRecos # <<>>)
       => /\ errors = <<>>
          /\ eof /\ row_idx - 2 = Len(file)
          /\ pc \in {"commit", "done", "aborted"}
          /\ ~self.dry_run
          /\ ~self.skip_stock_reconciliation
    /\ errors # <<>> => (AllStockOps = {} /\ NewRecos = <<>>)

\* a run submitted a Stock Reconciliation
C17_Witness ==
    /\ NewRecos # <<>>
    /\ NewRecos[1].docstatus = 1
    /\ AllStockOps # {}

\* the Item inserts the run has issued
ItemInserts == {i \in DOMAIN ops : ops[i].doctype = "Item" /\ ops[i].call = "insert"}

\* data row k names an item that an earlier row of this run inserted
InsertedEarlier(k) ==
    \E i \in ItemInserts : ops[i].key = ItemCodeOf(file[k]) /\ ops[i].line < k + 1

\* the Item writes the run issued for data row k
ItemWritesOf(k) ==
    {i \in DOMAIN ops : /\ ops[i].doctype = "Item"
                        /\ ops[i].call \in {"insert", "save"}
                        /\ ops[i].line = k + 1}

\* the distinct item codes of the scanned rows that the store lacked at the
\* start of the run
NewCodes == {ItemCodeOf(file[k]) : k \in Scanned} \ DOMAIN store0.Item

\* C18: a run that is not a dry run never inserts an Item whose code is in
\* the store, an earlier row's insert included; a later row with the same new
\* code is treated as existing (saved iff update_existing, and exempt from the
\* name, group and uom requirement), so a run without errors counts as created
\* exactly the distinct item codes absent at its start.
C18_NoDoubleInsert ==
    ~self.dry_run
    => /\ \A i \in ItemInserts :
            /\ ops[i].key \notin DOMAIN store0.Item
            /\ \A j \in ItemInserts : ops[j].key = ops[i].key => j = i
       /\ \A k \in Scanned :
            InsertedEarlier(k)
            => /\ ErrorsOf(k) = {}
               /\ \A i \in ItemWritesOf(k) : ops[i].call = "save"
               /\ (ItemWritesOf(k) # {}) = self.update_existing
       /\ (pc \in {"commit", "done"} /\ errors = <<>>)
          => created_items = Cardinality(NewCodes)

\* a run without errors read the same new item code twice, the second time
\* without a name, and counted one created item
C18_Witness ==
    /\ pc = "done"
    /\ ~self.dry_run
    /\ Len(file) = 2
    /\ InsertedEarlier(2)
    /\ ItemNameOf(file[2]) = ""
    /\ created_items = 1

\* the (item code, warehouse) pairs the stock map holds, one per place
RecordedPlaces ==
    {<<i, j>> \in (DOMAIN stock_map) \X (1 .. MaxRows + 1) : j \in DOMAIN stock_map[i].v}

PairAt(place) == <<stock_map[place[1]].v[place[2]].k, stock_map[place[1]].k>>

\* a Stock Reconciliation document whose lines are of one warehouse, name
\* distinct items and carry positive quantities
WellFormedReco(doc) ==
    /\ doc.items # <<>>
    /\ \A a, b \in DOMAIN doc.items :
         /\ doc.items[a].warehouse = doc.items[b].warehouse
         /\ a # b => doc.items[a].item_code # doc.items[b].item_code
         /\ doc.items[a].qty > 0

\* C19: throughout the scan and in every Stock Reconciliation of the run, an
\* (item code, warehouse) pair occurs at most once, every line carries the
\* warehouse of its group, every quantity is positive, the recorded pairs are
\* exactly the pairs marked as seen, and no warehouse group is empty.
C19_StockMapWellFormed ==
    /\ \A p, q \in RecordedPlaces : PairAt(p) = PairAt(q) => p = q
    /\ \A i, j \in DOMAIN stock_map : stock_map[i].k = stock_map[j].k => i = j
    /\ \A i \in DOMAIN stock_map : stock_map[i].v # <<>>
    /\ \A p \in RecordedPlaces : stock_map[p[1]].v[p[2]].v.qty > 0
    /\ {PairAt(p) : p \in RecordedPlaces} = stock_seen
    /\ \A n \in DOMAIN NewRecos :
         /\ WellFormedReco(NewRecos[n])
         /\ n \in DOMAIN stock_map
         /\ NewRecos[n].items[1].warehouse = stock_map[n].k
         /\ Len(NewRecos[n].items) = Len(stock_map[n].v)

\* a run submitted a Stock Reconciliation of two lines after reading one
\* warehouse for two items
C19_Witness ==
    /\ pc = "done"
    /\ Len(NewRecos) = 1
    /\ Len(NewRecos[1].items) = 2
    /\ NewRecos[1].docstatus = 1
    /\ Cardinality(stock_seen) = 2

\* the row of this step asks for a quantity that is empty or parses to at
\* most zero
NonPositiveStep == PassingStep /\ ~(flt(OpeningQtyOf(StepRow)) > 0)

\* data row k passed validation with a warehouse and a quantity that is empty
\* or not positive
CarriesNothing(k, item_code, warehouse) ==
    /\ k \in Scanned
    /\ ErrorsOf(k) = {}
    /\ ItemCodeOf(file[k]) = item_code
    /\ WarehouseOf(file[k], self) = warehouse
    /\ warehouse # ""
    /\ ~(flt(OpeningQtyOf(file[k])) > 0)

\* the first row with a positive quantity for the pair is its one recorded
\* contribution and has no note
FirstPositiveRecorded(pair) ==
    LET rows == RowsOf(pair)
        first == CHOOSE k \in rows : \A m \in rows : k <= m
    IN  /\ Cardinality(Contributions(pair)) = 1
        /\ \A c \in Contributions(pair) :
             stock_map[c[1]].v[c[2]].v.qty = flt(OpeningQtyOf(file[first]))
        /\ NotesOf(first) = {}
        /\ pair \in stock_seen

\* C20: a valid row whose quantity is empty or parses to at most zero records
\* no contribution, marks no pair as seen and appends no note, so the first
\* later row with a positive quantity for the pair becomes its contribution,
\* without a duplicate note.
C20_NonPositiveSkipped ==
    /\ [](\A pair \in Pairs :
            (~self.skip_stock_reconciliation /\ RowsOf(pair) # {})
            => FirstPositiveRecorded(pair))
    /\ [][NonPositiveStep => /\ stock_map' = stock_map
                             /\ stock_seen' = stock_seen
                             /\ log_lines' = log_lines]_vars

\* a valid row with quantity zero was followed by a valid row with a positive
\* quantity for the same pair
C20_Witness ==
    /\ ~self.skip_stock_reconciliation
    /\ \E pair \in Pairs :
         /\ CarriesNothing(1, pair[1], pair[2])
         /\ OpeningQtyOf(file[1]) # ""
         /\ 2 \in RowsOf(pair)
         /\ FirstPositiveRecorded(pair)
    /\ log_lines = <<>>

====
